---- MODULE Spec2Model ----
(***************************************************************************)
(* Emuna: the daily-quote notification scheduler (notifications module)    *)
(* as a state machine, and the restriction window calculator (Hebcal       *)
(* module) as operators.  Every async function is cut at its awaits: an    *)
(* operation in flight is a record with the await it is suspended at (pc)  *)
(* and its local variables; one action resumes one await and runs the      *)
(* synchronous code up to the next one.                                    *)
(*                                                                         *)
(* Time is counted in ticks of half a minute.  A day has HoursPerDay       *)
(* hours of MinutesPerHour minutes; local time has a fixed UTC offset      *)
(* (every calendar day has the same length).                               *)
(***************************************************************************)
EXTENDS Integers, Sequences, FiniteSets, TLC

\* ------------------------------------------------------------------ bounds
HoursPerDay == 2
MinutesPerHour == 2
MaxTime == 10
MaxIds == 3
MaxOps == 2
MaxItems == 4
MaxStamp == 3
MaxFeed == 2
MaxHoliday == 1
MaxRefreshes == 3

TicksPerDay == 2 * MinutesPerHour * HoursPerDay

\* ------------------------------------------------------- values and helpers
\* null / undefined / an absent storage key; Some(x) is a present value
Null == <<>>
Some(x) == <<x>>
Val(o) == o[1]

\* Number(part) of a part of the time string that is not numeric (parts that
\* are numeric are naturals)
NaN == -1
isNaN(x) == x = NaN

\* the value of a destructured array element that is not there
Undefined == -2

\* const [hour, minute] = parts: element i of the array, undefined beyond its end
Part(parts, i) == IF i <= Len(parts) THEN parts[i] ELSE Undefined

\* "HH:MM" after time.split(":").map(Number): the sequence of its parts
ValidTimes == { <<h, m>> : h \in 0 .. (HoursPerDay - 1), m \in 0 .. (MinutesPerHour - 1) }

\* the times the preference layer hands to the scheduler in this model
PrefTimes == { <<0, 1>>, <<1, 0>> }

\* time strings that are not two integers around a colon: "x:0", "0:x", "x"
\* (a part that is not numeric), and "1" (no colon: a single numeric part)
BadTimes == { <<NaN, 0>>, <<0, NaN>>, <<NaN>>, <<1>> }

\* Date.setHours(hour, minute, 0, 0) on the local day of instant t; an argument
\* that ToNumber turns into NaN (undefined is one) makes the date an Invalid
\* Date, whose time value is NaN
setHours(t, hour, minute) ==
    IF hour \in { NaN, Undefined } \/ minute \in { NaN, Undefined }
    THEN NaN
    ELSE (t \div TicksPerDay) * TicksPerDay + 2 * (hour * MinutesPerHour + minute)

\* if (trigger <= now)  (first a variant with <); a comparison with an Invalid
\* Date is false
TriggerPassedStrict(trigger, t) == ~isNaN(trigger) /\ trigger < t
TriggerPassed(trigger, t) == ~isNaN(trigger) /\ trigger <= t

\* getNextTriggerDate; a variant that never rolls forward comes first
NextTriggerNoRoll(time, t) == Some(setHours(t, time[1], time[2]))
getNextTriggerDate(time, t) ==
    IF isNaN(Part(time, 1)) \/ isNaN(Part(time, 2))
    THEN Null
    ELSE LET trigger == setHours(t, Part(time, 1), Part(time, 2))
         IN  IF TriggerPassed(trigger, t)
             THEN Some(trigger + TicksPerDay)
             ELSE Some(trigger)

\* ------------------------------------------------------------------- state
VARIABLES
    now,                        \* the clock (new Date())
    pending,                    \* the OS: the daily-quote notifications scheduled and not yet delivered
    nextId,                     \* the OS: the identifier the next scheduleNotificationAsync returns
    taskRegistered,             \* the OS: the background fetch task is registered
    storedId,                   \* AsyncStorage["daily-quote-notification-id"]
    storedWants,                \* AsyncStorage[STORAGE_KEYS.wantsQuotes]: "true", or absent (or any other string)
    storedTime,                 \* AsyncStorage[STORAGE_KEYS.notificationTime]
    scheduledNotificationId,    \* module variable (in memory)
    scheduledNotificationTime,  \* module variable (in memory)
    subscribed,                 \* notificationReceivedSubscription is not null
    listeners,                  \* the OS: the callbacks this process has added with
                                \* addNotificationReceivedListener
    ops,                        \* the async operations in flight, one per slot
    last,                       \* history: the operation that has just completed (in full), or
                                \* what is remembered of it once something else has happened
    probe,                      \* getNextTriggerDate applied on its own: its inputs and its result
    calendar,                   \* the restriction calculator applied on its own: the feed items,
                                \* the reference date, and the result
    fate,                       \* history: what became of the notifications that are no longer
                                \* pending and whose identifier the scheduler still holds
    provider,                   \* ShabbatRestrictionProvider: its refs, state and timers
    prefs                       \* PreferencesProvider: its state and its pending effect

osVars == <<pending, nextId, taskRegistered>>
storeVars == <<storedId, storedWants, storedTime>>
memVars == <<scheduledNotificationId, scheduledNotificationTime, subscribed, listeners>>
uiVars == <<provider, prefs>>
vars == <<now, pending, nextId, taskRegistered, storedId, storedWants, storedTime,
          scheduledNotificationId, scheduledNotificationTime, subscribed, listeners, ops, last,
          probe, calendar, fate, provider, prefs>>

Slots == 1 .. MaxOps

\* A slot holding no operation.  kind: which entry point started the operation;
\* pc: the await it is suspended at; time, nid, trigger, wants: its locals; the
\* other fields are history (what the operation saw and did; during: the kind
\* of an operation that was suspended at an await when this one started).
IdleOp ==
    [ kind |-> "none", pc |-> "idle", time |-> Null, inSingle |-> FALSE,
      nid |-> Null, trigger |-> Null, wants |-> FALSE,
      perm |-> Null, quote |-> Null, armed |-> Null, cancelled |-> Null,
      outcome |-> "none", at |-> Null, delivered |-> Null,
      prePending |-> {}, preStored |-> Null, preCached |-> Null,
      after |-> "none", afterQuote |-> Null, prevArmed |-> Null,
      during |-> "none" ]

NewOp(kind, time) ==
    [ IdleOp EXCEPT !.kind = kind, !.time = time,
                    !.prePending = pending, !.preStored = storedId,
                    !.preCached = scheduledNotificationId,
                    !.after = last.kind,
                    !.afterQuote = last.quote,
                    !.prevArmed = IF last.kind = "schedule" /\ kind = "schedule" /\ last.time = time
                                  THEN last.armed ELSE Null,
                    !.during = IF \A s \in 1 .. MaxOps : ops[s].pc = "idle"
                               THEN "none"
                               ELSE ops[CHOOSE s \in 1 .. MaxOps : ops[s].pc # "idle"].kind ]

AllIdle == \A s \in Slots : ops[s].pc = "idle"
FreeSlots == { s \in Slots : ops[s].pc = "idle" }
FirstFree == CHOOSE s \in FreeSlots : \A r \in FreeSlots : s <= r

\* scheduleNotificationAsync returns a fresh identifier each time; the model stops
\* starting operations that arm once MaxIds identifiers are spoken for
Armers == { s \in Slots : ops[s].pc # "idle" /\ ops[s].kind # "cancel" }
IdsLeft == nextId + Cardinality(Armers) <= MaxIds

\* What is remembered of the last operation after a later step: of a
\* scheduleDailyQuoteNotification that armed a notification, the time it was
\* called with and the notification; of any other, nothing
Aged(l) ==
    IF l.kind = "schedule" /\ l.armed # Null
    THEN [ IdleOp EXCEPT !.kind = l.kind, !.time = l.time, !.armed = l.armed,
                         !.pc = "done", !.outcome = "old" ]
    ELSE IdleOp

Event(kind) == [ IdleOp EXCEPT !.kind = kind, !.pc = "done", !.outcome = "event" ]

InitScheduler ==
    /\ now = 0
    /\ pending = {}
    /\ nextId = 1
    /\ taskRegistered = FALSE
    /\ storedId = Null
    /\ storedWants = Null
    /\ storedTime = Null
    /\ scheduledNotificationId = Null
    /\ scheduledNotificationTime = Null
    /\ subscribed = FALSE
    /\ listeners = 0
    /\ ops = [ s \in Slots |-> IdleOp ]
    /\ last = IdleOp
    /\ fate = {}

\* the two providers are not mounted
NoUi ==
    /\ provider = Null
    /\ prefs = Null

Init ==
    /\ InitScheduler
    /\ NoUi
    /\ probe = Null
    /\ calendar = Null

\* --------------------------------------------- synchronous pieces of the code

\* the identifiers of a set of scheduled notifications
IdsOf(set) == { n.id : n \in set }

\* History of the notifications that left the OS's schedule: a pair <<id, how>>
\* with how "delivered", "discarded" (dropped by the OS) or "cancelled" (by
\* cancelScheduledNotificationAsync).  Only the identifiers the scheduler will
\* still hold after the step are remembered: the persisted one, the cached
\* one, and one whose setStoredNotificationId is in flight.
Held(d) ==
    \/ storedId' = Some(d)
    \/ scheduledNotificationId' = Some(d)
    \/ \E s \in 1 .. MaxOps : ops'[s].armed = Some(d)
Gone(ids, how) ==
    { e \in fate \cup { <<d, how>> : d \in ids } : Held(e[1]) }

\* cancelScheduledNotification up to its first await:
\*   notificationId = scheduledNotificationId ?? (await getStoredNotificationId())
\* (first a variant that never reads the persisted id and returns at once)
cancelEntryCacheOnly(o, cached) ==
    IF cached # Null
    THEN [ o EXCEPT !.nid = cached, !.pc = "os_cancel" ]
    ELSE [ o EXCEPT !.nid = Null, !.pc = "return" ]
cancelEntry(o, cached) ==
    IF cached # Null
    THEN [ o EXCEPT !.nid = cached, !.pc = "os_cancel" ]
    ELSE [ o EXCEPT !.pc = "get_id" ]

\* scheduleSingleNotification up to its first await (ensureNotificationsPermission)
singleEntry(o, time) == [ o EXCEPT !.inSingle = TRUE, !.time = time, !.pc = "perm" ]

\* the notifications the OS still holds after cancelScheduledNotificationAsync(id)
\* (first a variant that removes nothing)
osCancelNothing(set, id) == set
osCancel(set, id) == { n \in set : n.id # id }

\* the operation in slot s ends: normally ("done") or by a rejected promise ("threw")
Finish(s, o, how) ==
    /\ ops' = [ ops EXCEPT ![s] = IdleOp ]
    /\ last' = [ o EXCEPT !.pc = "done", !.outcome = how ]

Continue(s, o) ==
    /\ ops' = [ ops EXCEPT ![s] = o ]
    /\ last' = IF ops[s].pc = "idle" THEN Aged(last) ELSE last

\* cancelScheduledNotification has returned to its caller, which runs on to its
\* next await: scheduleSingleNotification fetches the quote, the background task
\* returns NoData, cancelDailyQuoteNotification clears the time and unregisters
Returned(s, o) ==
    IF o.inSingle
    THEN /\ Continue(s, [ o EXCEPT !.pc = "quote" ])
         /\ UNCHANGED scheduledNotificationTime
    ELSE IF o.kind = "cancel"
    THEN /\ Continue(s, [ o EXCEPT !.pc = "unreg_check" ])
         /\ scheduledNotificationTime' = Null
    ELSE /\ Finish(s, o, "done")
         /\ UNCHANGED scheduledNotificationTime

\* entering cancelScheduledNotification from a resumed step
CallCancel(s, o) ==
    LET c == cancelEntry(o, scheduledNotificationId)
    IN  IF c.pc = "return"
        THEN Returned(s, c)
        ELSE /\ Continue(s, c)
             /\ UNCHANGED scheduledNotificationTime

\* ------------------------------------------------------------ entry points

\* ensureNotificationListener: the number of callbacks added once it has run
\* (first a variant without the test of notificationReceivedSubscription)
addsListenerAlways(has, n) == n + 1
ensureNotificationListener(has, n) == IF has THEN n ELSE n + 1

\* scheduleDailyQuoteNotification(time), up to the await in registerBackgroundFetchTask
scheduleDailyQuoteNotification(t) ==
    /\ FreeSlots # {}
    /\ IdsLeft
    /\ scheduledNotificationTime' = t
    /\ subscribed' = TRUE
    /\ listeners' = ensureNotificationListener(subscribed, listeners)
    /\ Continue(FirstFree, [ NewOp("schedule", t) EXCEPT !.pc = "reg_check" ])
    /\ UNCHANGED <<now, osVars, storedId, scheduledNotificationId, probe, calendar, fate, provider>>

ScheduleDaily(t) ==
    /\ scheduleDailyQuoteNotification(t)
    /\ UNCHANGED <<storedWants, storedTime, prefs>>

\* cancelDailyQuoteNotification(), up to the first await of cancelScheduledNotification
cancelDailyQuoteNotification ==
    /\ FreeSlots # {}
    /\ CallCancel(FirstFree, NewOp("cancel", Null))
    /\ UNCHANGED <<now, osVars, storedId, scheduledNotificationId, subscribed, listeners,
                   probe, calendar, fate, provider>>

CancelDaily ==
    /\ cancelDailyQuoteNotification
    /\ UNCHANGED <<storedWants, storedTime, prefs>>

\* the OS runs the registered background fetch task, up to its first AsyncStorage read
BackgroundWake ==
    /\ taskRegistered
    /\ FreeSlots # {}
    /\ IdsLeft
    /\ Continue(FirstFree, [ NewOp("background", Null) EXCEPT !.pc = "bg_wants" ])
    /\ UNCHANGED <<now, osVars, storeVars, memVars, probe, calendar, fate, uiVars>>

\* the callback of addNotificationReceivedListener: does it re-arm?  (first a
\* variant that never does)
listenerNever(tagged, time) == FALSE
listenerRearms(tagged, time) == tagged /\ time # Null

\* the slots taken by k operations that start together: the k lowest free ones
LowestFree(k) == { s \in FreeSlots : Cardinality({ r \in FreeSlots : r < s }) < k }

\* The OS delivers a due daily-quote notification and runs every callback added
\* with addNotificationReceivedListener; each starts
\* scheduleSingleNotification(scheduledNotificationTime)
Deliver(n) ==
    /\ n \in pending
    /\ n.at <= now
    /\ pending' = pending \ {n}
    /\ IF listeners > 0 /\ listenerRearms(TRUE, scheduledNotificationTime)
       THEN /\ Cardinality(FreeSlots) >= listeners
            /\ nextId + Cardinality(Armers) + listeners - 1 <= MaxIds
            /\ ops' = [ s \in Slots |->
                          IF s \in LowestFree(listeners)
                          THEN singleEntry([ NewOp("received", Null) EXCEPT !.delivered = Some(n) ],
                                           scheduledNotificationTime)
                          ELSE ops[s] ]
            /\ last' = Aged(last)
       ELSE /\ ops' = ops
            /\ last' = [ Event("deliver") EXCEPT !.delivered = Some(n) ]
    /\ UNCHANGED <<now, nextId, taskRegistered, storeVars, memVars, probe, calendar, uiVars>>
    /\ fate' = Gone({ n.id }, "delivered")

\* A notification without the daily-quote tag is received: the callback returns
ReceiveOther ==
    /\ subscribed
    /\ IF listenerRearms(FALSE, scheduledNotificationTime)
       THEN /\ FreeSlots # {}
            /\ IdsLeft
            /\ Continue(FirstFree,
                   singleEntry(NewOp("received", Null), scheduledNotificationTime))
       ELSE /\ ops' = ops
            /\ last' = Event("other")
    /\ UNCHANGED <<now, osVars, storeVars, memVars, probe, calendar, fate, uiVars>>

\* ------------------------------------------------------------- environment

Tick ==
    /\ now < MaxTime
    /\ now' = now + 1
    /\ last' = Aged(last)
    /\ UNCHANGED <<osVars, storeVars, memVars, ops, probe, calendar, fate, uiVars>>

\* The OS drops what was scheduled (reboot, force-stop)
Discard ==
    /\ pending # {}
    /\ pending' = {}
    /\ last' = Event("discard")
    /\ UNCHANGED <<now, nextId, taskRegistered, storeVars, memVars, ops, probe, calendar, uiVars>>
    /\ fate' = Gone(IdsOf(pending), "discarded")

\* The process ends and a new one starts: the module variables are initial again
Restart ==
    /\ scheduledNotificationId' = Null
    /\ scheduledNotificationTime' = Null
    /\ subscribed' = FALSE
    /\ listeners' = 0
    /\ ops' = [ s \in Slots |-> IdleOp ]
    /\ last' = Event("restart")
    /\ UNCHANGED <<now, osVars, storeVars, probe, calendar, uiVars>>
    /\ fate' = Gone({}, "none")

\* The preference layer writes the user's choices (setBoolean / setString / removeItem)
WritePreferences(w, t) ==
    /\ <<w, t>> # <<storedWants, storedTime>>
    /\ storedWants' = w
    /\ storedTime' = t
    /\ last' = Aged(last)
    /\ UNCHANGED <<now, osVars, storedId, memVars, ops, probe, calendar, fate, uiVars>>

\* ------------------------------------------- resumed awaits (one action each)
\* F is the set of outcomes of the awaited platform call: TRUE (it resolves),
\* FALSE (it rejects)

\* registerBackgroundFetchTask: await TaskManager.isTaskRegisteredAsync
RegCheck(s, F) ==
    /\ ops[s].pc = "reg_check"
    /\ \E ok \in F :
         IF ~ok THEN Finish(s, ops[s], "threw")
         ELSE IF taskRegistered
         THEN Continue(s, singleEntry(ops[s], ops[s].time))
         ELSE Continue(s, [ ops[s] EXCEPT !.pc = "reg_call" ])
    /\ UNCHANGED <<now, osVars, storeVars, memVars, probe, calendar, fate, uiVars>>

\* registerBackgroundFetchTask: await BackgroundFetch.registerTaskAsync (in try/catch)
RegCall(s, F) ==
    /\ ops[s].pc = "reg_call"
    /\ \E ok \in F : taskRegistered' = (ok \/ taskRegistered)
    /\ Continue(s, singleEntry(ops[s], ops[s].time))
    /\ UNCHANGED <<now, pending, nextId, storeVars, memVars, probe, calendar, fate, uiVars>>

\* if (!hasPermission) return  (first a variant without the test)
permissionNeverStops(granted) == FALSE
stopsWithoutPermission(granted) == ~granted

\* scheduleSingleNotification: await ensureNotificationsPermission (G: what the
\* user's settings or answer can be), then getNextTriggerDate and the call of
\* cancelScheduledNotification
Perm(s, G) ==
    /\ ops[s].pc = "perm"
    /\ \E granted \in G :
         LET o == [ ops[s] EXCEPT !.perm = Some(granted), !.at = Some(now) ]
             next == getNextTriggerDate(o.time, now)
         IN  IF stopsWithoutPermission(granted) \/ next = Null
             THEN /\ Finish(s, o, "done")
                  /\ UNCHANGED scheduledNotificationTime
             ELSE CallCancel(s, [ o EXCEPT !.trigger = next ])
    /\ UNCHANGED <<now, osVars, storeVars, scheduledNotificationId, subscribed, listeners, probe, calendar, fate, uiVars>>

\* cancelScheduledNotification: await getStoredNotificationId
GetId(s, F) ==
    /\ ops[s].pc = "get_id"
    /\ \E ok \in F :
         IF ~ok THEN /\ Finish(s, ops[s], "threw")
                     /\ UNCHANGED scheduledNotificationTime
         ELSE IF storedId = Null
         THEN Returned(s, ops[s])
         ELSE /\ Continue(s, [ ops[s] EXCEPT !.nid = storedId, !.pc = "os_cancel" ])
              /\ UNCHANGED scheduledNotificationTime
    /\ UNCHANGED <<now, osVars, storeVars, scheduledNotificationId, subscribed, listeners, probe, calendar, fate, uiVars>>

\* finally { scheduledNotificationId = null; ... }  (first a variant that keeps it)
cachedIdKept(cached) == cached
cachedIdAfterCancel(cached) == Null

\* cancelScheduledNotification: await Notifications.cancelScheduledNotificationAsync,
\* its catch, and the finally block up to await setStoredNotificationId(null)
OsCancel(s, F) ==
    /\ ops[s].pc = "os_cancel"
    /\ \E ok \in F :
         pending' = IF ok THEN osCancel(pending, Val(ops[s].nid)) ELSE pending
    /\ scheduledNotificationId' = cachedIdAfterCancel(scheduledNotificationId)
    /\ Continue(s, [ ops[s] EXCEPT !.cancelled = ops[s].nid, !.pc = "rm_id" ])
    /\ UNCHANGED <<now, nextId, taskRegistered, storeVars,
                   scheduledNotificationTime, subscribed, listeners, probe, calendar, uiVars>>
    /\ fate' = Gone(IdsOf(pending) \ IdsOf(pending'), "cancelled")

\* cancelScheduledNotification: await setStoredNotificationId(null), then the return
RmId(s, F) ==
    /\ ops[s].pc = "rm_id"
    /\ \E ok \in F :
         IF ok
         THEN /\ storedId' = Null
              /\ Returned(s, ops[s])
         ELSE /\ storedId' = storedId
              /\ Finish(s, ops[s], "threw")
              /\ UNCHANGED scheduledNotificationTime
    /\ UNCHANGED <<now, osVars, storedWants, storedTime,
                   scheduledNotificationId, subscribed, listeners, probe, calendar, uiVars>>
    /\ fate' = Gone({}, "none")

\* if (!quote) return  (first a variant without the test)
quoteNeverStops(quote) == FALSE
stopsWithoutQuote(quote) == ~quote

\* scheduleSingleNotification: await getRandomQuote (Q: whether it can return a
\* quote; it returns null when the fetch fails), then the content and trigger up
\* to await scheduleNotificationAsync
Quote(s, Q) ==
    /\ ops[s].pc = "quote"
    /\ \E quote \in Q :
         LET o == [ ops[s] EXCEPT !.quote = Some(quote) ]
         IN  IF stopsWithoutQuote(quote)
             THEN Finish(s, o, "done")
             ELSE Continue(s, [ o EXCEPT !.pc = "os_arm" ])
    /\ UNCHANGED <<now, osVars, storeVars, memVars, probe, calendar, fate, uiVars>>

\* scheduleSingleNotification: await Notifications.scheduleNotificationAsync (in
\* try/catch), the assignment of its result, up to await setStoredNotificationId(id).
\* Handed an Invalid Date the platform either rejects or accepts the request.
OsArm(s, F) ==
    /\ ops[s].pc = "os_arm"
    /\ \E ok \in (IF isNaN(Val(ops[s].trigger)) THEN BOOLEAN ELSE F) :
         IF ok
         THEN /\ pending' = pending \cup
                    { [ id |-> nextId, at |-> Val(ops[s].trigger), hm |-> ops[s].time ] }
              /\ nextId' = nextId + 1
              /\ scheduledNotificationId' = Some(nextId)
              /\ Continue(s, [ ops[s] EXCEPT !.armed = Some(nextId), !.pc = "put_id" ])
         ELSE /\ UNCHANGED <<pending, nextId, scheduledNotificationId>>
              /\ Finish(s, ops[s], "done")
    /\ UNCHANGED <<now, taskRegistered, storeVars,
                   scheduledNotificationTime, subscribed, listeners, probe, calendar, uiVars>>
    /\ fate' = Gone({}, "none")

\* what setStoredNotificationId(id) leaves under the storage key (first a
\* variant that writes nothing)
storeNothing(old, id) == old
setStoredNotificationId(old, id) == id

\* scheduleSingleNotification: await setStoredNotificationId(scheduledNotificationId)
PutId(s, F) ==
    /\ ops[s].pc = "put_id"
    /\ \E ok \in F :
         storedId' = IF ok THEN setStoredNotificationId(storedId, ops[s].armed) ELSE storedId
    /\ Finish(s, ops[s], "done")
    /\ UNCHANGED <<now, osVars, storedWants, storedTime, memVars, probe, calendar, uiVars>>
    /\ fate' = Gone({}, "none")

\* unregisterBackgroundFetchTask: await TaskManager.isTaskRegisteredAsync
UnregCheck(s, F) ==
    /\ ops[s].pc = "unreg_check"
    /\ \E ok \in F :
         IF ~ok THEN Finish(s, ops[s], "threw")
         ELSE IF ~taskRegistered
         THEN Finish(s, ops[s], "done")
         ELSE Continue(s, [ ops[s] EXCEPT !.pc = "unreg_call" ])
    /\ UNCHANGED <<now, osVars, storeVars, memVars, probe, calendar, fate, uiVars>>

\* unregisterBackgroundFetchTask: await BackgroundFetch.unregisterTaskAsync (in try/catch)
UnregCall(s, F) ==
    /\ ops[s].pc = "unreg_call"
    /\ \E ok \in F : taskRegistered' = (taskRegistered /\ ~ok)
    /\ Finish(s, ops[s], "done")
    /\ UNCHANGED <<now, pending, nextId, storeVars, memVars, probe, calendar, fate, uiVars>>

\* background task: await AsyncStorage.getItem(STORAGE_KEYS.wantsQuotes)
BgReadWants(s, F) ==
    /\ ops[s].pc = "bg_wants"
    /\ \E ok \in F :
         IF ~ok THEN Finish(s, ops[s], "threw")
         ELSE Continue(s, [ ops[s] EXCEPT !.wants = (storedWants = Some("true")),
                                          !.pc = "bg_time" ])
    /\ UNCHANGED <<now, osVars, storeVars, memVars, probe, calendar, fate, uiVars>>

\* the background task's test: !wantsQuotes || !notificationTime (first a
\* variant that forgets wantsQuotes)
bgCancelsTimeOnly(wants, time) == time = Null
bgCancels(wants, time) == ~wants \/ time = Null

\* background task: await AsyncStorage.getItem(STORAGE_KEYS.notificationTime), then
\* either cancelScheduledNotification or scheduleSingleNotification(notificationTime)
BgReadTime(s, F) ==
    /\ ops[s].pc = "bg_time"
    /\ \E ok \in F :
         IF ~ok THEN /\ Finish(s, ops[s], "threw")
                     /\ UNCHANGED scheduledNotificationTime
         ELSE IF bgCancels(ops[s].wants, storedTime)
         THEN CallCancel(s, [ ops[s] EXCEPT !.time = storedTime ])
         ELSE /\ Continue(s, singleEntry(ops[s], storedTime))
              /\ UNCHANGED scheduledNotificationTime
    /\ UNCHANGED <<now, osVars, storeVars, scheduledNotificationId, subscribed, listeners, probe, calendar, fate, uiVars>>

\* the awaits of scheduleDailyQuoteNotification, of the listener's re-arm and of
\* the background task
ResumeSchedule(s, F, G, Q) ==
    \/ RegCheck(s, F) \/ RegCall(s, F) \/ Perm(s, G) \/ GetId(s, F) \/ OsCancel(s, F)
    \/ RmId(s, F) \/ Quote(s, Q) \/ OsArm(s, F) \/ PutId(s, F)
    \/ BgReadWants(s, F) \/ BgReadTime(s, F)

\* the awaits only cancelDailyQuoteNotification reaches
ResumeCancel(s, F) == UnregCheck(s, F) \/ UnregCall(s, F)

Resume(s, F, G, Q) == ResumeSchedule(s, F, G, Q) \/ ResumeCancel(s, F)

\* ---------------------------------------------------------- specifications

Resolves == { TRUE }

\* time passes while nothing runs, and during the two awaits that can last: the
\* permission request (a dialog) and the quote fetch (the network)
Waiting == \A s \in Slots : ops[s].pc \in { "idle", "perm", "quote" }

\* Operations run one after another: an entry point is called, a notification is
\* delivered and the process restarts only while no operation is in flight, and
\* every platform call resolves.
Next ==
    \/ AllIdle /\ \E t \in PrefTimes : ScheduleDaily(t)
    \/ AllIdle /\ CancelDaily
    \/ AllIdle /\ BackgroundWake
    \/ AllIdle /\ \E n \in pending : Deliver(n)
    \/ AllIdle /\ ReceiveOther
    \/ AllIdle /\ Discard
    \/ AllIdle /\ Restart
    \/ AllIdle /\ \E w \in { Null, Some("true") }, t \in PrefTimes \cup { Null } :
                     WritePreferences(w, t)
    \/ Waiting /\ Tick
    \/ \E s \in Slots : Resume(s, Resolves, BOOLEAN, BOOLEAN)

Spec == Init /\ [][Next]_vars

\* The user has enabled quotes and keeps one notification time; permission stays
\* granted and a quote is always available; the OS keeps what is scheduled until
\* it delivers it.  The event loop resumes every settled await, and the OS goes on
\* running the background fetch task while it is registered.
Granted == { TRUE }
QuoteAvailable == { TRUE }

NextLive ==
    \/ AllIdle /\ storedTime = Null
               /\ \E t \in PrefTimes : WritePreferences(Some("true"), t)
    \/ AllIdle /\ storedTime # Null /\ ScheduleDaily(storedTime)
    \/ AllIdle /\ BackgroundWake
    \/ AllIdle /\ IdsLeft /\ \E n \in pending : Deliver(n)
    \/ AllIdle /\ ReceiveOther
    \/ AllIdle /\ Restart
    \/ Waiting /\ Tick
    \/ \E s \in Slots : ResumeSchedule(s, Resolves, Granted, QuoteAvailable)

SpecLive ==
    /\ Init
    /\ [][NextLive]_vars
    /\ WF_vars(\E s \in Slots : ResumeSchedule(s, Resolves, Granted, QuoteAvailable))
    /\ WF_vars(AllIdle /\ BackgroundWake)

\* scheduleDailyQuoteNotification called with any time string, well formed or
\* not, one call after another; permission is granted and a quote is available
NextParse ==
    \/ AllIdle /\ \E t \in PrefTimes \cup BadTimes : ScheduleDaily(t)
    \/ AllIdle /\ \E n \in pending : Deliver(n)
    \/ Waiting /\ Tick
    \/ \E s \in Slots : \/ RegCheck(s, Resolves) \/ RegCall(s, Resolves)
                        \/ Perm(s, Granted) \/ GetId(s, Resolves)
                        \/ OsCancel(s, Resolves) \/ RmId(s, Resolves)
                        \/ Quote(s, QuoteAvailable) \/ OsArm(s, Resolves)
                        \/ PutId(s, Resolves)

SpecParse == Init /\ [][NextParse]_vars

\* The calls into the platform's notification and task services
\* (cancelScheduledNotificationAsync, scheduleNotificationAsync,
\* isTaskRegisteredAsync, registerTaskAsync, unregisterTaskAsync) may reject;
\* AsyncStorage resolves.  Operations run one after another.
Rejects == BOOLEAN

NextFaults ==
    \/ AllIdle /\ \E t \in PrefTimes : ScheduleDaily(t)
    \/ AllIdle /\ CancelDaily
    \/ AllIdle /\ BackgroundWake
    \/ AllIdle /\ Discard
    \/ AllIdle /\ Restart
    \/ AllIdle /\ \E w \in { Null, Some("true") }, t \in PrefTimes \cup { Null } :
                     WritePreferences(w, t)
    \/ \E s \in Slots : \/ RegCheck(s, Rejects) \/ RegCall(s, Rejects)
                        \/ Perm(s, Granted) \/ GetId(s, Resolves)
                        \/ OsCancel(s, Rejects) \/ RmId(s, Resolves)
                        \/ Quote(s, QuoteAvailable) \/ OsArm(s, Rejects)
                        \/ PutId(s, Resolves)
                        \/ UnregCheck(s, Rejects) \/ UnregCall(s, Rejects)
                        \/ BgReadWants(s, Resolves) \/ BgReadTime(s, Resolves)

SpecFaults == Init /\ [][NextFaults]_vars

\* The preference layer does not await the scheduler: its effect calls
\* scheduleDailyQuoteNotification and setWantsQuotes(false) / reset call
\* cancelDailyQuoteNotification while an earlier call may still be suspended at
\* an await.  Here the user enables quotes, may change the time, and then
\* disables them; every platform call resolves, permission is granted and a
\* quote is available.
Disabled ==
    \/ \E s \in Slots : ops[s].kind = "cancel"
    \/ subscribed /\ scheduledNotificationTime = Null

NextOverlap ==
    \/ ~Disabled /\ \E t \in PrefTimes : ScheduleDaily(t)
    \/ ~Disabled /\ subscribed /\ CancelDaily
    \/ \E s \in Slots : \/ RegCheck(s, Resolves) \/ RegCall(s, Resolves)
                        \/ Perm(s, Granted) \/ GetId(s, Resolves)
                        \/ OsCancel(s, Resolves) \/ RmId(s, Resolves)
                        \/ Quote(s, QuoteAvailable) \/ OsArm(s, Resolves)
                        \/ PutId(s, Resolves)
                        \/ UnregCheck(s, Resolves) \/ UnregCall(s, Resolves)

SpecOverlap == Init /\ [][NextOverlap]_vars

\* getNextTriggerDate alone, on every valid time and every instant (probe.at is
\* the value of new Date())
InitTrigger ==
    /\ InitScheduler
    /\ NoUi
    /\ \E t \in ValidTimes, at \in 0 .. (MaxTime + TicksPerDay) :
           probe = [ time |-> t, at |-> at, result |-> Null ]
    /\ calendar = Null

ApplyTrigger ==
    /\ probe # Null
    /\ probe.result = Null
    /\ probe' = [ probe EXCEPT !.result = getNextTriggerDate(probe.time, probe.at) ]
    /\ UNCHANGED <<now, osVars, storeVars, memVars, ops, last, calendar, fate, uiVars>>

NextTrigger == ApplyTrigger

SpecTrigger == InitTrigger /\ [][NextTrigger]_vars

\* ------------------------------------------ the restriction window calculator
\* (the Hebcal module).  Instants are milliseconds, as Date.getTime() gives them.

MS_IN_MINUTE == 60 * 1000
MS_IN_HOUR == 60 * MS_IN_MINUTE
MS_IN_DAY == 24 * MS_IN_HOUR

\* The date strings of feed items in this model: absent (Null), a date-time
\* string <<"T", instant>>, or an all-day string <<"D", day number>>; the number
\* is NaN for a string that new Date() cannot read.  The instants of the markers
\* are StampStep apart.
StampStep == 4 * MS_IN_MINUTE
Stamps == { k * StampStep : k \in 0 .. MaxStamp }
MarkerDates == { Null } \cup { <<"T", t>> : t \in Stamps }

\* parseDate: null for a missing or unreadable string; an all-day string is
\* read as 12:00 at DEFAULT_TIMEZONE_OFFSET (+03:00)
parseDate(value) ==
    IF value = Null THEN Null
    ELSE IF isNaN(value[2]) THEN Null
    ELSE IF value[1] = "T" THEN Some(value[2])
    ELSE Some(value[2] * MS_IN_DAY + 12 * MS_IN_HOUR - 3 * MS_IN_HOUR)

\* items.filter(category).map(parsedDate).filter(isValidDate)
RECURSIVE markersOf(_, _)
markersOf(items, category) ==
    IF items = <<>> THEN <<>>
    ELSE LET item == Head(items)
             parsed == parseDate(item.date)
             rest == markersOf(Tail(items), category)
         IN  IF item.category = category /\ parsed # Null
             THEN <<[ category |-> item.category, date |-> item.date,
                      parsedDate |-> Val(parsed) ]>> \o rest
             ELSE rest

\* Array.prototype.sort with (a, b) => a.parsedDate - b.parsedDate: ascending,
\* equal elements keep their order (first a variant that does not sort)
notSorted(markers) == markers
RECURSIVE insertByDate(_, _)
insertByDate(sorted, x) ==
    IF sorted = <<>> THEN <<x>>
    ELSE IF Head(sorted).parsedDate <= x.parsedDate
    THEN <<Head(sorted)>> \o insertByDate(Tail(sorted), x)
    ELSE <<x>> \o sorted
RECURSIVE sortByDate(_)
sortByDate(markers) ==
    IF markers = <<>> THEN <<>>
    ELSE insertByDate(sortByDate(SubSeq(markers, 1, Len(markers) - 1)),
                      markers[Len(markers)])

\* The device's time zone, taken to be the zone the feed writes its dates in
\* (Israel): local time is UTC + LocalOffset, and every local day has the same
\* length
LocalOffset == 3 * MS_IN_HOUR

\* formatLocalDate: the local calendar day of an instant ("YYYY-MM-DD"), as the
\* number of the day
formatLocalDate(value) == (value + LocalOffset) \div MS_IN_DAY

\* collectDateKeysInRange: the cursor starts at local midnight of the day of
\* start (setHours(0, 0, 0, 0)) and moves a day at a time while it is <= end
RECURSIVE collectFrom(_, _)
collectFrom(cursor, end) ==
    IF cursor <= end
    THEN { formatLocalDate(cursor) } \cup collectFrom(cursor + MS_IN_DAY, end)
    ELSE {}
collectDateKeysInRange(start, end) ==
    collectFrom(formatLocalDate(start) * MS_IN_DAY - LocalOffset, end)

\* item.date.split("T")[0]: the calendar day written in the date string
dateKey(date) == IF date[1] = "D" THEN date[2] ELSE formatLocalDate(date[2])

\* the test of items.find in determineReason: the item is flagged yomtov (the
\* field is optional), has a date, and the day of its date is one of the keys
\* (first a variant that does not look at the flag)
anyDatedItem(item, rangeKeys) ==
    /\ item.date # Null
    /\ dateKey(item.date) \in rangeKeys
isRelevantHoliday(item, rangeKeys) ==
    /\ "yomtov" \in DOMAIN item
    /\ item.yomtov
    /\ item.date # Null
    /\ dateKey(item.date) \in rangeKeys

\* determineReason: the reason of the window (its title and subtitle are display
\* strings and are left out)
determineReason(items, windowStart, windowEnd) ==
    LET rangeKeys == collectDateKeysInRange(windowStart, windowEnd)
    IN  IF \E i \in 1 .. Len(items) : isRelevantHoliday(items[i], rangeKeys)
        THEN "yomtov"
        ELSE "shabbat"

\* the test of the while loop: havdalah.getTime() <= candle.getTime()  (first a
\* variant with <)
havdalahBefore(havdalah, candle) == havdalah < candle
havdalahNotAfter(havdalah, candle) == havdalah <= candle

\* the while loop: havdalahCursor (an index from 1 here) moves past the havdalah
\* markers that are not after the candle
RECURSIVE advanceCursor(_, _, _)
advanceCursor(sortedHavdalah, havdalahCursor, candle) ==
    IF /\ havdalahCursor <= Len(sortedHavdalah)
       /\ havdalahNotAfter(sortedHavdalah[havdalahCursor].parsedDate, candle.parsedDate)
    THEN advanceCursor(sortedHavdalah, havdalahCursor + 1, candle)
    ELSE havdalahCursor

\* the for loop over sortedCandles, from candle i on
RECURSIVE pairCandles(_, _, _, _, _, _)
pairCandles(items, sortedCandles, sortedHavdalah, i, havdalahCursor, windows) ==
    IF i > Len(sortedCandles) THEN windows
    ELSE LET cursor == advanceCursor(sortedHavdalah, havdalahCursor, sortedCandles[i])
         IN  IF cursor > Len(sortedHavdalah)
             THEN windows
             ELSE pairCandles(items, sortedCandles, sortedHavdalah, i + 1, cursor,
                      Append(windows,
                             [ reason |-> determineReason(items, sortedCandles[i].parsedDate,
                                                          sortedHavdalah[cursor].parsedDate),
                               start |-> sortedCandles[i].parsedDate,
                               end |-> sortedHavdalah[cursor].parsedDate ]))

\* buildRestrictionWindows: the windows, with their reason, start and end
buildRestrictionWindows(items) ==
    LET sortedCandles == sortByDate(markersOf(items, "candles"))
        sortedHavdalah == sortByDate(markersOf(items, "havdalah"))
    IN  IF Len(sortedCandles) = 0 \/ Len(sortedHavdalah) = 0
        THEN <<>>
        ELSE pairCandles(items, sortedCandles, sortedHavdalah, 1, 1, <<>>)

\* fetchCurrentRestriction(referenceDate), called at instant t: the function
\* builds mockRestriction (start: new Date(), end: six hours later) and returns
\* it with nextCheckAfterMs: 3600000 before it fetches or computes anything;
\* the statements after that return are never run
fetchCurrentRestriction(items, referenceDate, t) ==
    LET mockRestriction == [ reason |-> "shabbat", start |-> t,
                             end |-> t + 6 * 60 * 60 * 1000 ]
    IN  [ restriction |-> Some(mockRestriction), nextCheckAfterMs |-> 3600000 ]

\* the feeds: sequences of candle-lighting and havdalah items
FeedItems == { [ category |-> c, date |-> d ] : c \in { "candles", "havdalah" },
                                                  d \in MarkerDates }
Feeds(n) == UNION { [ 1 .. k -> FeedItems ] : k \in 0 .. n }

\* buildRestrictionWindows alone, on every feed of at most MaxItems items
InitWindows ==
    /\ InitScheduler
    /\ NoUi
    /\ probe = Null
    /\ \E items \in Feeds(MaxItems) :
           calendar = [ items |-> items, windows |-> Null ]

ApplyWindows ==
    /\ calendar # Null
    /\ calendar.windows = Null
    /\ calendar' = [ calendar EXCEPT !.windows = Some(buildRestrictionWindows(calendar.items)) ]
    /\ UNCHANGED <<now, osVars, storeVars, memVars, ops, last, probe, fate, uiVars>>

NextWindows == ApplyWindows

SpecWindows == InitWindows /\ [][NextWindows]_vars

\* what a request to the calendar feed comes to in fetchCalendarWindow: the
\* response is parsed ("ok"), fetch rejects ("network error"), or the status is
\* not OK ("status"); in the last two the catch block returns {}
FeedOutcomes == { "ok", "network error", "status" }

\* fetchCurrentRestriction on every feed of at most MaxFeed items, every outcome
\* of a request to the feed and every reference date on or between the marker
\* instants; the call is made at the reference date (referenceDate = new Date())
ReferenceDates == { k * (StampStep \div 2) : k \in 0 .. (2 * MaxStamp + 1) }

InitRestriction ==
    /\ InitScheduler
    /\ NoUi
    /\ probe = Null
    /\ \E items \in Feeds(MaxFeed), ref \in ReferenceDates, outcome \in FeedOutcomes :
           calendar = [ items |-> items, referenceDate |-> ref, response |-> outcome,
                        result |-> Null ]

ApplyRestriction ==
    /\ calendar # Null
    /\ calendar.result = Null
    /\ calendar' = [ calendar EXCEPT !.result =
                        Some(fetchCurrentRestriction(calendar.items, calendar.referenceDate,
                                                     calendar.referenceDate)) ]
    /\ UNCHANGED <<now, osVars, storeVars, memVars, ops, last, probe, fate, uiVars>>

NextRestriction == ApplyRestriction

SpecRestriction == InitRestriction /\ [][NextRestriction]_vars

\* buildRestrictionWindows and fetchCurrentRestriction on feeds that also hold
\* holiday items.  The markers are half a day apart, at 18:00 and 06:00 local
\* time from day 0 on; holiday items are all-day ("D", day) or carry a time, are
\* flagged yomtov or carry no flag, and may lack a date.
DayStamps == { k * (MS_IN_DAY \div 2) + 18 * MS_IN_HOUR - LocalOffset : k \in 0 .. MaxStamp }
DayItems == { [ category |-> c, date |-> <<"T", t>> ] :
                  c \in { "candles", "havdalah" }, t \in DayStamps }
HolidayDates ==
    { Null } \cup { <<"D", d>> : d \in 0 .. (MaxStamp \div 2 + 1) }
             \cup { <<"T", 18 * MS_IN_HOUR - LocalOffset>> }
HolidayItems ==
    { [ category |-> "holiday", date |-> d, yomtov |-> TRUE ] : d \in HolidayDates }
    \cup { [ category |-> "holiday", date |-> d ] : d \in HolidayDates \ { Null } }
DayFeeds ==
    { markers \o holidays :
          markers \in UNION { [ 1 .. k -> DayItems ] : k \in 0 .. MaxFeed },
          holidays \in UNION { [ 1 .. k -> HolidayItems ] : k \in 0 .. MaxHoliday } }

InitReason ==
    /\ InitScheduler
    /\ NoUi
    /\ probe = Null
    /\ \E items \in DayFeeds, k \in 0 .. 1 :
           calendar = [ items |-> items,
                        referenceDate |-> k * MS_IN_DAY + MS_IN_DAY - LocalOffset,
                        windows |-> Null, result |-> Null ]

ApplyReason ==
    /\ calendar # Null
    /\ calendar.result = Null
    /\ calendar' = [ calendar EXCEPT
                        !.windows = Some(buildRestrictionWindows(calendar.items)),
                        !.result = Some(fetchCurrentRestriction(calendar.items,
                                            calendar.referenceDate, calendar.referenceDate)) ]
    /\ UNCHANGED <<now, osVars, storeVars, memVars, ops, last, probe, fate, uiVars>>

NextReason == ApplyReason

SpecReason == InitReason /\ [][NextReason]_vars

\* if (delta <= 15 * MS_IN_MINUTE)  (first a variant in which it never is)
startsSoonNever(delta) == FALSE
startsSoon(delta) == delta <= 15 * MS_IN_MINUTE

\* findNextCheckDelay(now, windows): upcomingStart is the least start after now,
\* undefined when there is none; !upcomingStart also holds of the instant 0
findNextCheckDelay(t, windows) ==
    LET starts == { windows[j].start : j \in 1 .. Len(windows) }
        upcoming == { x \in starts : x > t }
        upcomingStart == IF upcoming = {} THEN 0
                         ELSE CHOOSE x \in upcoming : \A y \in upcoming : x <= y
        delta == upcomingStart - t
    IN  IF upcomingStart = 0 THEN 60 * MS_IN_MINUTE
        ELSE IF startsSoon(delta) THEN 5 * MS_IN_MINUTE
        ELSE IF delta <= 2 * MS_IN_HOUR THEN delta
        ELSE 2 * MS_IN_HOUR

\* findNextCheckDelay on the windows of every feed of at most MaxFeed + 1 markers
\* placed around two reference dates (4, 5, 15 and 16 minutes and 3 hours
\* after the first), together with what fetchCurrentRestriction returns there
DelayBase == MS_IN_HOUR
DelayStamps == { MS_IN_MINUTE,
                 DelayBase + 4 * MS_IN_MINUTE,
                 DelayBase + 5 * MS_IN_MINUTE,
                 DelayBase + 15 * MS_IN_MINUTE,
                 DelayBase + 16 * MS_IN_MINUTE,
                 DelayBase + 3 * MS_IN_HOUR }
DelayReferences == { DelayBase, DelayBase + 4 * MS_IN_MINUTE }
DelayItems == { [ category |-> c, date |-> <<"T", t>> ] :
                   c \in { "candles", "havdalah" }, t \in DelayStamps }
DelayFeeds == UNION { [ 1 .. k -> DelayItems ] : k \in 0 .. (MaxFeed + 1) }

InitDelay ==
    /\ InitScheduler
    /\ NoUi
    /\ probe = Null
    /\ \E items \in DelayFeeds, ref \in DelayReferences :
           calendar = [ items |-> items, referenceDate |-> ref, windows |-> Null,
                        delay |-> Null, result |-> Null ]

ApplyDelay ==
    /\ calendar # Null
    /\ calendar.delay = Null
    /\ LET windows == buildRestrictionWindows(calendar.items)
       IN  calendar' = [ calendar EXCEPT
                          !.windows = Some(windows),
                          !.delay = Some(findNextCheckDelay(calendar.referenceDate, windows)),
                          !.result = Some(fetchCurrentRestriction(calendar.items,
                                              calendar.referenceDate, calendar.referenceDate)) ]
    /\ UNCHANGED <<now, osVars, storeVars, memVars, ops, last, probe, fate, uiVars>>

NextDelay == ApplyDelay

SpecDelay == InitDelay /\ [][NextDelay]_vars

\* --------------------------------------------- ShabbatRestrictionProvider
\* provider.phase: "rendered" (the effect has not run), "mounted", "unmounted";
\* isMountedRef, timeoutRef: the refs; loading, restriction: the state;
\* timers: the timeouts pending in the runtime; inflight: the calls of refresh
\* suspended at await fetchCurrentRestriction(), by what started them.

RefreshKinds == { "mount", "timer", "manual" }
Running(p) == p.inflight["mount"] + p.inflight["timer"] + p.inflight["manual"]

\* the instants at which fetchCurrentRestriction may be called
CallInstants == { 0, MS_IN_HOUR }

\* clearTimeout(id): the timeouts still pending (first a variant that clears none)
clearTimeoutNothing(timers, id) == timers
clearTimeout(timers, id) == { tm \in timers : tm.id # id }

clearScheduledRefresh(p) ==
    IF p.timeoutRef # Null
    THEN [ p EXCEPT !.timers = clearTimeout(p.timers, Val(p.timeoutRef)),
                    !.timeoutRef = Null ]
    ELSE p

\* the handle setTimeout returns: one the runtime has not handed out to a
\* timeout that is pending or that timeoutRef still named when refresh resumed
FreshTimer(p) ==
    CHOOSE i \in 1 .. (Cardinality(p.timers) + 2) :
        /\ \A tm \in p.timers : tm.id # i
        /\ p.timeoutRef # Some(i)
        /\ \A j \in 1 .. (i - 1) : (\E tm \in p.timers : tm.id = j) \/ p.timeoutRef = Some(j)

\* Math.max(result.nextCheckAfterMs, 60 * 1000)
refreshDelay(nextCheckAfterMs) ==
    IF nextCheckAfterMs >= 60 * 1000 THEN nextCheckAfterMs ELSE 60 * 1000

\* refresh(showLoading) up to await fetchCurrentRestriction()
refreshCalled(p, showLoading, kind) ==
    [ p EXCEPT !.loading = IF showLoading THEN TRUE ELSE p.loading,
               !.inflight = [ p.inflight EXCEPT ![kind] = p.inflight[kind] + 1 ] ]

\* refresh after the await: the test of isMountedRef, the two setters,
\* clearScheduledRefresh and setTimeout
refreshResumed(p, kind, result) ==
    LET q == [ p EXCEPT !.inflight = [ p.inflight EXCEPT ![kind] = p.inflight[kind] - 1 ] ]
        c == clearScheduledRefresh([ q EXCEPT !.restriction = result.restriction,
                                              !.loading = FALSE ])
        id == FreshTimer(q)
    IN  IF ~q.isMountedRef
        THEN q
        ELSE [ c EXCEPT !.timers = c.timers \cup
                                     { [ id |-> id, delay |-> refreshDelay(result.nextCheckAfterMs) ] },
                        !.timeoutRef = Some(id) ]

InitProvider ==
    /\ InitScheduler
    /\ probe = Null
    /\ calendar = Null
    /\ prefs = Null
    /\ provider = [ phase |-> "rendered", isMountedRef |-> TRUE, timeoutRef |-> Null,
                    timers |-> {}, loading |-> TRUE, restriction |-> Null,
                    inflight |-> [ k \in RefreshKinds |-> 0 ] ]

ProviderFrame ==
    UNCHANGED <<now, osVars, storeVars, memVars, ops, last, probe, calendar, fate, prefs>>

\* the effect: isMountedRef.current = true; refresh(true)
ProviderMount ==
    /\ provider.phase = "rendered"
    /\ provider' = refreshCalled([ provider EXCEPT !.phase = "mounted", !.isMountedRef = TRUE ],
                                 TRUE, "mount")
    /\ ProviderFrame

\* handleManualRefresh, called by a consumer of the context
ManualRefresh ==
    /\ provider.phase = "mounted"
    /\ Running(provider) + Cardinality(provider.timers) < MaxRefreshes
    /\ provider' = refreshCalled(provider, TRUE, "manual")
    /\ ProviderFrame

\* a pending timeout expires: its callback calls refresh(false)
TimerFires ==
    /\ \E tm \in provider.timers :
          provider' = refreshCalled([ provider EXCEPT !.timers = provider.timers \ { tm } ],
                                    FALSE, "timer")
    /\ ProviderFrame

\* fetchCurrentRestriction() resolves and the refresh that awaited it runs on
RefreshCompletes ==
    /\ \E k \in RefreshKinds, at \in CallInstants :
          /\ provider.inflight[k] > 0
          /\ provider' = refreshResumed(provider, k, fetchCurrentRestriction(<<>>, at, at))
    /\ ProviderFrame

\* the effect's cleanup: isMountedRef.current = false; clearScheduledRefresh()
ProviderUnmount ==
    /\ provider.phase = "mounted"
    /\ provider' = clearScheduledRefresh([ provider EXCEPT !.phase = "unmounted",
                                                           !.isMountedRef = FALSE ])
    /\ ProviderFrame

NextProvider ==
    \/ ProviderMount
    \/ ManualRefresh
    \/ TimerFires
    \/ RefreshCompletes
    \/ ProviderUnmount

\* The runtime runs the effect after the first render, runs the callback of
\* every timeout that stays pending, and resumes every refresh whose await has
\* settled.
SpecProvider ==
    /\ InitProvider
    /\ [][NextProvider]_vars
    /\ WF_vars(ProviderMount)
    /\ WF_vars(TimerFires)
    /\ WF_vars(RefreshCompletes)

\* ---------------------------------------------------- PreferencesProvider
\* prefs.loaded, wantsQuotes (undefined is Null), notificationTime,
\* favoriteAuthors: the provider's state; storedAuthors:
\* AsyncStorage[STORAGE_KEYS.favoriteAuthors]; effectPending: a render has
\* changed a dependency of the scheduling effect, which has not run yet;
\* did: history, the last handler or effect of the provider that ran.

AuthorLists == { <<>>, <<1>> }

\* getBoolean: undefined when the key is absent, else value === "true"
getBoolean(raw) == IF raw = Null THEN Null ELSE Some(Val(raw) = "true")
\* setBoolean writes "true" or "false"
setBoolean(value) == Some(IF value THEN "true" ELSE "false")
\* parseFavoriteAuthors
parseFavoriteAuthors(raw) == IF raw = Null THEN <<>> ELSE Val(raw)

UnloadedPrefs(storedAuthors) ==
    [ loaded |-> FALSE, wantsQuotes |-> Null, notificationTime |-> Null,
      favoriteAuthors |-> <<>>, storedAuthors |-> storedAuthors,
      effectPending |-> FALSE, did |-> "mount" ]

\* the tests at the head of the scheduling effect (first a variant without the
\* test of wantsQuotes)
effectSchedulesAnyChoice(p) ==
    p.loaded /\ p.notificationTime # Null /\ Len(p.favoriteAuthors) > 0
effectSchedules(p) ==
    /\ p.loaded
    /\ p.wantsQuotes = Some(TRUE)
    /\ p.notificationTime # Null
    /\ Len(p.favoriteAuthors) > 0

\* first launch after installation: nothing is stored, the provider has
\* rendered with its initial state and loadPreferences is awaiting AsyncStorage
InitPreferences ==
    /\ InitScheduler
    /\ probe = Null
    /\ calendar = Null
    /\ provider = Null
    /\ prefs = UnloadedPrefs(Null)

\* what a step of the provider that does not call the scheduler leaves alone
PrefsFrame ==
    UNCHANGED <<now, osVars, storedId, memVars, ops, last, probe, calendar, fate, provider>>

\* loadPreferences: the reads resolve (or one rejects) and the state is set
LoadPreferences(F) ==
    /\ ~prefs.loaded
    /\ \E ok \in F :
         prefs' = IF ok
                  THEN [ prefs EXCEPT !.loaded = TRUE,
                                      !.wantsQuotes = getBoolean(storedWants),
                                      !.favoriteAuthors = parseFavoriteAuthors(prefs.storedAuthors),
                                      !.notificationTime = storedTime,
                                      !.effectPending = TRUE,
                                      !.did = "load" ]
                  ELSE [ prefs EXCEPT !.loaded = TRUE, !.effectPending = TRUE, !.did = "load" ]
    /\ UNCHANGED <<storedWants, storedTime>>
    /\ PrefsFrame

\* setWantsQuotes(value)
SetWantsQuotes(value) ==
    /\ prefs.loaded
    /\ ~prefs.effectPending
    /\ storedWants' = setBoolean(value)
    /\ prefs' = [ prefs EXCEPT !.wantsQuotes = Some(value),
                               !.effectPending = (prefs.wantsQuotes # Some(value)),
                               !.did = "setWantsQuotes" ]
    /\ UNCHANGED storedTime
    /\ IF ~value THEN cancelDailyQuoteNotification ELSE PrefsFrame

\* setFavoriteAuthors(ids), with an array the caller has just built
SetFavoriteAuthors(ids) ==
    /\ prefs.loaded
    /\ ~prefs.effectPending
    /\ prefs' = [ prefs EXCEPT !.favoriteAuthors = ids,
                               !.storedAuthors = IF Len(ids) = 0 THEN Null ELSE Some(ids),
                               !.effectPending = TRUE,
                               !.did = "setFavoriteAuthors" ]
    /\ UNCHANGED <<storedWants, storedTime>>
    /\ PrefsFrame

\* setNotificationTime(time)
SetNotificationTime(time) ==
    /\ prefs.loaded
    /\ ~prefs.effectPending
    /\ storedTime' = time
    /\ prefs' = [ prefs EXCEPT !.notificationTime = time,
                               !.effectPending = (prefs.notificationTime # time),
                               !.did = "setNotificationTime" ]
    /\ UNCHANGED storedWants
    /\ PrefsFrame

\* reset()
ResetPreferences ==
    /\ prefs.loaded
    /\ ~prefs.effectPending
    /\ storedWants' = Null
    /\ storedTime' = Null
    /\ prefs' = [ UnloadedPrefs(Null) EXCEPT !.loaded = TRUE, !.effectPending = TRUE,
                                             !.did = "reset" ]
    /\ cancelDailyQuoteNotification

\* the scheduling effect, run after a render that changed one of its dependencies
ScheduleEffect ==
    /\ prefs.effectPending
    /\ prefs' = [ prefs EXCEPT !.effectPending = FALSE, !.did = "effect" ]
    /\ UNCHANGED <<storedWants, storedTime>>
    /\ IF effectSchedules(prefs)
       THEN scheduleDailyQuoteNotification(prefs.notificationTime)
       ELSE PrefsFrame

\* the app is closed and opened again: a new process, the module variables and
\* the provider's state are initial, loadPreferences is awaiting AsyncStorage
AppRestart ==
    /\ prefs.loaded
    /\ ~prefs.effectPending
    /\ scheduledNotificationId' = Null
    /\ scheduledNotificationTime' = Null
    /\ subscribed' = FALSE
    /\ listeners' = 0
    /\ ops' = [ s \in Slots |-> IdleOp ]
    /\ last' = Event("restart")
    /\ prefs' = UnloadedPrefs(prefs.storedAuthors)
    /\ UNCHANGED <<now, osVars, storeVars, probe, calendar, provider>>
    /\ fate' = Gone({}, "none")

\* The provider and the scheduler: the handlers are called while the navigator
\* shows the screens (preferences loaded) and the effect runs before the next
\* handler.  The scheduler's operations run one after another: the provider
\* takes its next step when the operation it started has completed.  Every
\* platform call resolves, permission is granted and a quote is available.
NextPreferences ==
    \/ AllIdle /\ LoadPreferences(Resolves)
    \/ AllIdle /\ \E value \in BOOLEAN : SetWantsQuotes(value)
    \/ AllIdle /\ \E ids \in AuthorLists : SetFavoriteAuthors(ids)
    \/ AllIdle /\ \E time \in PrefTimes \cup { Null } : SetNotificationTime(time)
    \/ AllIdle /\ ResetPreferences
    \/ AllIdle /\ ScheduleEffect
    \/ AllIdle /\ AppRestart
    \/ \E s \in Slots : \/ RegCheck(s, Resolves) \/ RegCall(s, Resolves)
                        \/ Perm(s, Granted) \/ GetId(s, Resolves)
                        \/ OsCancel(s, Resolves) \/ RmId(s, Resolves)
                        \/ Quote(s, QuoteAvailable) \/ OsArm(s, Resolves)
                        \/ PutId(s, Resolves)
                        \/ UnregCheck(s, Resolves) \/ UnregCall(s, Resolves)

SpecPreferences == InitPreferences /\ [][NextPreferences]_vars

\* ------------------------------------------------------------------ claims


\* the state right after an operation of the given kind has run to its end
JustDone(kind) == AllIdle /\ last.kind = kind /\ last.outcome = "done"

\* the first tick of hour:minute on the local day of instant t, written without
\* setHours: the instant of that day whose time of day is hour:minute:00
TodayAt(time, t) ==
    CHOOSE c \in 0 .. (t + TicksPerDay) :
        /\ c \div TicksPerDay = t \div TicksPerDay
        /\ c % TicksPerDay = 2 * (time[1] * MinutesPerHour + time[2])

\* the first hour:minute:00 strictly after instant t
NextOccurrence(time, t) ==
    CHOOSE c \in 0 .. (t + TicksPerDay) :
        /\ c > t
        /\ c % TicksPerDay = 2 * (time[1] * MinutesPerHour + time[2])
        /\ \A d \in (t + 1) .. (c - 1) :
               d % TicksPerDay # 2 * (time[1] * MinutesPerHour + time[2])

\* C1: with operations run one after another, the OS never holds more than one
\* pending daily-quote notification, whatever sequence of schedule, cancel,
\* delivery, background wake-up, restart and OS discard has run.
C1_AtMostOnePending == Cardinality(pending) <= 1

\* a third notification has been armed by a re-arm after a delivery, and it is
\* the only one pending
C1_Witness ==
    /\ JustDone("received")
    /\ last.armed = Some(3)
    /\ Cardinality(pending) = 1

\* C2: a scheduleDailyQuoteNotification(time) that completes with permission
\* granted and a quote, right after an earlier scheduleDailyQuoteNotification of
\* the same time that armed a notification, leaves exactly one pending
\* notification: the one it armed, whose id is the persisted id; the earlier
\* call's notification is no longer pending.
C2_Idempotent ==
    ( /\ JustDone("schedule")
      /\ last.prevArmed # Null
      /\ last.perm = Some(TRUE)
      /\ last.quote = Some(TRUE) )
    => /\ last.armed # Null
       /\ last.armed # last.prevArmed
       /\ IdsOf(pending) = { Val(last.armed) }
       /\ Cardinality(pending) = 1
       /\ storedId = last.armed
       /\ \A n \in pending : n.hm = last.time

\* the second call found the first call's notification pending and cancelled it
C2_Witness ==
    /\ JustDone("schedule")
    /\ last.prevArmed # Null
    /\ last.perm = Some(TRUE)
    /\ last.quote = Some(TRUE)
    /\ Val(last.prevArmed) \in IdsOf(last.prePending)
    /\ last.cancelled = last.prevArmed

\* C3: when cancelDailyQuoteNotification has completed, no notification id is
\* persisted, none is cached in memory and no daily-quote notification is pending.
C3_CancelClears ==
    JustDone("cancel")
    => /\ storedId = Null
       /\ scheduledNotificationId = Null
       /\ pending = {}

\* the cancel ran on the state a completed schedule leaves: a pending
\* notification whose id is cached and persisted
C3_Witness ==
    /\ JustDone("cancel")
    /\ last.prePending # {}
    /\ last.preStored # Null
    /\ last.preCached = last.preStored
    /\ last.cancelled = last.preStored

ListenerFrame ==
    UNCHANGED <<nextId, taskRegistered, storedId, storedWants, storedTime,
                scheduledNotificationId, scheduledNotificationTime, subscribed, listeners, ops>>

\* the re-arm started by a delivered daily-quote notification has completed with
\* permission and a quote
C5_Rearmed ==
    ( /\ JustDone("received")
      /\ last.perm = Some(TRUE)
      /\ last.quote = Some(TRUE) )
    => /\ last.delivered # Null
       /\ last.time # Null
       /\ last.time = scheduledNotificationTime
       /\ last.armed # Null
       /\ pending = { [ id |-> Val(last.armed),
                        at |-> NextOccurrence(last.time, Val(last.at)),
                        hm |-> last.time ] }
       /\ storedId = last.armed
       /\ Val(last.delivered).hm = last.time
            => \A n \in pending : n.at >= Val(last.delivered).at + TicksPerDay
       /\ ( /\ Val(last.delivered).hm = last.time
            /\ Val(last.at) \div TicksPerDay = Val(last.delivered).at \div TicksPerDay )
            => \A n \in pending : n.at = Val(last.delivered).at + TicksPerDay

\* C5: a delivered notification with the daily-quote tag, received while a
\* notification time is set, makes the listener arm one new one-shot notification
\* at the next occurrence of that time, which is the following day's occurrence
\* of the delivered notification's time (permission granted, quote available); a
\* notification without the tag, or one received while no time is set, leaves
\* the scheduler state as it was.
C5_ListenerRearms ==
    /\ []C5_Rearmed
    /\ [][ReceiveOther => (pending' = pending /\ ListenerFrame)]_vars
    /\ [][(scheduledNotificationTime = Null /\ \E n \in pending : Deliver(n))
            => ListenerFrame]_vars

\* a notification received at its trigger instant has been replaced by one for
\* the same time a day later
C5_Witness ==
    /\ JustDone("received")
    /\ last.perm = Some(TRUE)
    /\ last.quote = Some(TRUE)
    /\ Val(last.delivered).hm = last.time
    /\ Val(last.at) = Val(last.delivered).at
    /\ \E n \in pending : n.at = Val(last.delivered).at + TicksPerDay

\* a daily-quote notification has been delivered and no operation has completed since
Delivered ==
    \/ \E s \in Slots : ops[s].pc # "idle" /\ ops[s].kind = "received"
    \/ last.kind = "deliver"

C7_BackgroundCancels ==
    ( /\ JustDone("background")
      /\ ~last.wants \/ last.time = Null )
    => /\ last.armed = Null
       /\ last.perm = Null
       /\ pending = {}
       /\ storedId = Null
       /\ scheduledNotificationId = Null

\* the wake-up found a pending, recorded notification with wantsQuotes off and
\* a time still persisted, and cancelled it
C7_Witness ==
    /\ JustDone("background")
    /\ ~last.wants
    /\ last.time # Null
    /\ last.prePending # {}
    /\ last.cancelled = last.preStored
    /\ last.cancelled # Null

\* C8: a background wake-up that finds wantsQuotes on and a time persisted while
\* the OS holds no pending notification, and that gets permission and a quote,
\* leaves exactly one pending notification, at the next occurrence of the
\* persisted time, with its id persisted.
C8_BackgroundHeals ==
    ( /\ JustDone("background")
      /\ last.wants
      /\ last.time # Null
      /\ last.prePending = {}
      /\ last.perm = Some(TRUE)
      /\ last.quote = Some(TRUE) )
    => /\ last.time = storedTime
       /\ last.armed # Null
       /\ pending = { [ id |-> Val(last.armed),
                        at |-> NextOccurrence(last.time, Val(last.at)),
                        hm |-> last.time ] }
       /\ storedId = last.armed

\* the wake-up came right after the OS discarded the pending notification, whose
\* id was still persisted
C8_Witness ==
    /\ JustDone("background")
    /\ last.after = "discard"
    /\ last.wants
    /\ last.prePending = {}
    /\ last.preStored # Null
    /\ last.cancelled = last.preStored
    /\ Cardinality(pending) = 1
    /\ storedId = last.armed

\* C9: with no id cached in memory (a new process) and the persisted id naming a
\* pending notification, cancelDailyQuoteNotification, and a schedule that has
\* permission, cancel that notification through the persisted id.
C9_PersistedIdSurvives ==
    ( /\ AllIdle
      /\ last.outcome = "done"
      /\ last.kind \in { "cancel", "schedule" }
      /\ last.kind = "schedule" => last.perm = Some(TRUE)
      /\ last.preCached = Null
      /\ last.preStored # Null
      /\ Val(last.preStored) \in IdsOf(last.prePending) )
    => /\ last.cancelled = last.preStored
       /\ Val(last.preStored) \notin IdsOf(pending)

\* the cancel came right after a restart that followed a successful schedule
C9_Witness ==
    /\ JustDone("cancel")
    /\ last.after = "restart"
    /\ last.preCached = Null
    /\ last.preStored # Null
    /\ Val(last.preStored) \in IdsOf(last.prePending)
    /\ pending = {}

\* C10: a scheduleDailyQuoteNotification that is refused permission arms
\* nothing, cancels nothing and leaves the pending notifications and the
\* persisted id as they were.
C10_PermissionDenied ==
    ( /\ JustDone("schedule")
      /\ last.perm = Some(FALSE) )
    => /\ last.armed = Null
       /\ last.cancelled = Null
       /\ pending = last.prePending
       /\ storedId = last.preStored

\* permission was refused while a notification was pending and recorded
C10_Witness ==
    /\ JustDone("schedule")
    /\ last.perm = Some(FALSE)
    /\ last.prePending # {}
    /\ last.preStored # Null
    /\ pending = last.prePending

\* the parts of the time string are two numbers
Parseable(time) ==
    /\ Len(time) = 2
    /\ ~isNaN(time[1])
    /\ ~isNaN(time[2])

\* C11: a scheduleDailyQuoteNotification whose time string is not two integers
\* around a colon, called while a notification (armed for a well-formed time)
\* is pending, arms nothing and leaves the pending notification, the persisted
\* id and the cached id as they were before the call.
C11_ParseFailureNoOp ==
    ( /\ JustDone("schedule")
      /\ ~Parseable(last.time)
      /\ last.prePending # {}
      /\ \A n \in last.prePending : Parseable(n.hm) )
    => /\ last.armed = Null
       /\ last.cancelled = Null
       /\ pending = last.prePending
       /\ storedId = last.preStored
       /\ scheduledNotificationId = last.preCached

\* an operation that runs scheduleSingleNotification has just run to its end
JustScheduled ==
    /\ AllIdle
    /\ last.outcome = "done"
    /\ last.kind \in { "schedule", "received", "background" }

\* C12: a schedule operation that gets no quote ends with nothing armed: no
\* notification is pending, no id is persisted or cached, and no operation
\* reaches scheduleNotificationAsync without a quote.
C12_NoQuoteNothingArmed ==
    /\ (JustScheduled /\ last.quote = Some(FALSE))
         => /\ last.armed = Null
            /\ pending = {}
            /\ storedId = Null
            /\ scheduledNotificationId = Null
    /\ \A s \in Slots :
         ops[s].pc \in { "os_arm", "put_id" } => ops[s].quote = Some(TRUE)

\* the quote was missing on a call made while a notification was pending
C12_Witness ==
    /\ JustDone("schedule")
    /\ last.quote = Some(FALSE)
    /\ last.prePending # {}
    /\ last.preStored # Null
    /\ pending = {}

\* C13 as stated: after a schedule attempt that gets no quote the pending
\* notifications and the persisted id are what they were before the attempt.
C13_QuoteFailureNoOp ==
    (JustScheduled /\ last.quote = Some(FALSE))
    => /\ pending = last.prePending
       /\ storedId = last.preStored

\* C13, amended: a schedule attempt that gets no quote arms nothing, but by then
\* it has cancelled the notification recorded before it (the cached id, else the
\* persisted one) and removed the persisted id, so that the pending
\* notifications and the persisted id are unchanged only when nothing was
\* recorded; a background wake-up that then finds quotes wanted, a time
\* persisted, permission and a quote arms the notification for the next
\* occurrence of that time and persists its id.
C13_QuoteFailureThenRetry ==
    /\ (JustScheduled /\ last.quote = Some(FALSE))
         => /\ last.armed = Null
            /\ last.cancelled = (IF last.preCached # Null THEN last.preCached
                                                          ELSE last.preStored)
            /\ pending = { n \in last.prePending : Some(n.id) # last.cancelled }
            /\ storedId = Null
            /\ (last.preCached = Null /\ last.preStored = Null)
                 => pending = last.prePending
    /\ ( /\ JustDone("background")
         /\ last.afterQuote = Some(FALSE)
         /\ last.wants
         /\ last.time # Null
         /\ last.perm = Some(TRUE)
         /\ last.quote = Some(TRUE) )
         => /\ last.armed # Null
            /\ pending = { [ id |-> Val(last.armed),
                             at |-> NextOccurrence(last.time, Val(last.at)),
                             hm |-> last.time ] }
            /\ storedId = last.armed

\* the wake-up came right after an attempt that had found no quote, with
\* nothing left pending, and armed the notification
C13_Witness ==
    /\ JustDone("background")
    /\ last.afterQuote = Some(FALSE)
    /\ last.prePending = {}
    /\ last.quote = Some(TRUE)
    /\ last.armed # Null
    /\ Cardinality(pending) = 1

\* the awaits inside cancelScheduledNotification
CancelPcs == { "get_id", "os_cancel", "rm_id" }

\* C14 (states): cancelScheduledNotification calls the OS only with an id; an
\* operation that found neither a cached nor a persisted id has made no OS
\* cancel call and left the pending notifications alone; and an operation that
\* made the OS cancel call and armed nothing afterwards ends with no cached and
\* no persisted id, whether or not the OS call succeeded.
C14_CancelState ==
    /\ \A s \in Slots : ops[s].pc = "os_cancel" => ops[s].nid # Null
    /\ ( /\ AllIdle
         /\ last.outcome = "done"
         /\ last.preCached = Null
         /\ last.preStored = Null )
         => /\ last.cancelled = Null
            /\ { n \in pending : Some(n.id) # last.armed } = last.prePending
    /\ ( /\ AllIdle
         /\ last.outcome = "done"
         /\ last.cancelled # Null
         /\ last.armed = Null )
         => /\ scheduledNotificationId = Null
            /\ storedId = Null

C15_DisabledClears ==
    (AllIdle /\ Disabled)
    => /\ pending = {}
       /\ storedId = Null

\* C16: when a scheduleDailyQuoteNotification started while an earlier one was
\* suspended at an await, and both have completed (the later one last), exactly
\* one notification is pending: the one the later call armed, whose id is the
\* persisted id.
C16_LaterSupersedes ==
    ( /\ JustDone("schedule")
      /\ last.during = "schedule" )
    => /\ last.armed # Null
       /\ Cardinality(pending) = 1
       /\ IdsOf(pending) = { Val(last.armed) }
       /\ storedId = last.armed

\* the instants of the havdalah markers of the feed, and the number of its
\* candle-lighting markers at instant t
HavdalahInstants(items) ==
    { t \in Stamps : \E i \in 1 .. Len(items) :
          items[i].category = "havdalah" /\ items[i].date = <<"T", t>> }
CandlesAt(items, t) ==
    Cardinality({ i \in 1 .. Len(items) :
          items[i].category = "candles" /\ items[i].date = <<"T", t>> })

\* the feed holds candle markers at D1 and D2 and havdalah markers at E1 and E2
\* and nothing else
TwoByTwo(items, D1, E1, D2, E2) ==
    /\ Len(items) = 4
    /\ D1 < E1 /\ E1 < D2 /\ D2 < E2
    /\ CandlesAt(items, D1) = 1
    /\ CandlesAt(items, D2) = 1
    /\ HavdalahInstants(items) = { E1, E2 }

\* C17: buildRestrictionWindows returns, in chronological order of the candle
\* markers, one window for every candle marker that has a havdalah marker
\* strictly after it, ending at the earliest such havdalah marker, and no window
\* for a candle marker that has none; for markers D1 < E1 < D2 < E2 the windows
\* are exactly [D1, E1) and [D2, E2).
C17_WindowPairing ==
    (calendar # Null /\ calendar.windows # Null)
    => LET items == calendar.items
           ws == Val(calendar.windows)
           H == HavdalahInstants(items)
       IN  /\ \A j \in 1 .. Len(ws) :
                 /\ ws[j].end \in H
                 /\ ws[j].end > ws[j].start
                 /\ \A g \in H : g > ws[j].start => ws[j].end <= g
           /\ \A j \in 1 .. (Len(ws) - 1) : ws[j].start <= ws[j + 1].start
           /\ \A t \in Stamps :
                 Cardinality({ j \in 1 .. Len(ws) : ws[j].start = t })
                   = IF \E h \in H : h > t THEN CandlesAt(items, t) ELSE 0
           /\ \A D1, E1, D2, E2 \in Stamps :
                 TwoByTwo(items, D1, E1, D2, E2)
                 => /\ Len(ws) = 2
                    /\ ws[1].start = D1 /\ ws[1].end = E1
                    /\ ws[2].start = D2 /\ ws[2].end = E2
                    /\ ws[1].end <= ws[2].start

\* the feed lists the later pair first, and the two windows have come out in
\* chronological order
C17_Witness ==
    /\ calendar # Null
    /\ calendar.windows # Null
    /\ \E D1, E1, D2, E2 \in Stamps :
          /\ TwoByTwo(calendar.items, D1, E1, D2, E2)
          /\ calendar.items[1] = [ category |-> "havdalah", date |-> <<"T", E2>> ]
          /\ calendar.items[2] = [ category |-> "candles", date |-> <<"T", D2>> ]
          /\ Len(Val(calendar.windows)) = 2
          /\ Val(calendar.windows)[1].start = D1
          /\ Val(calendar.windows)[2].end = E2

\* C18: every window buildRestrictionWindows returns has start < end, for every
\* feed: markers at equal instants, markers out of order, markers without a
\* readable date.
C18_StartBeforeEnd ==
    (calendar # Null /\ calendar.windows # Null)
    => \A j \in 1 .. Len(Val(calendar.windows)) :
          Val(calendar.windows)[j].start < Val(calendar.windows)[j].end

\* a candle marker and a havdalah marker share an instant, the feed is out of
\* order, and the candle marker has been paired with a later havdalah marker
C18_Witness ==
    /\ calendar # Null
    /\ calendar.windows # Null
    /\ \E t \in Stamps :
          /\ CandlesAt(calendar.items, t) >= 1
          /\ t \in HavdalahInstants(calendar.items)
          /\ calendar.items[1].category = "havdalah"
          /\ calendar.items[1].date # Null
          /\ calendar.items[1].date[2] > t
          /\ \E j \in 1 .. Len(Val(calendar.windows)) :
                Val(calendar.windows)[j].start = t

\* x limited to the range lo .. hi
Clamp(x, lo, hi) == IF x < lo THEN lo ELSE IF x > hi THEN hi ELSE x

\* C19: fetchCurrentRestriction called with a reference date inside a window of
\* the feed (start <= t < end) returns that window as the restriction, with
\* nextCheckAfterMs the time left until the window's end, limited to the range
\* from 1 minute to 10 minutes.
C19_ActiveWindow ==
    (calendar # Null /\ calendar.result # Null)
    => LET ws == buildRestrictionWindows(calendar.items)
           t == calendar.referenceDate
           r == Val(calendar.result)
       IN  (\E j \in 1 .. Len(ws) : ws[j].start <= t /\ t < ws[j].end)
           => \E j \in 1 .. Len(ws) :
                 /\ ws[j].start <= t /\ t < ws[j].end
                 /\ r.restriction # Null
                 /\ Val(r.restriction).start = ws[j].start
                 /\ Val(r.restriction).end = ws[j].end
                 /\ r.nextCheckAfterMs
                      = Clamp(ws[j].end - t, MS_IN_MINUTE, 10 * MS_IN_MINUTE)

\* C20: fetchCurrentRestriction called when the feed yields no window at all
\* returns no restriction (null) and nextCheckAfterMs of 1 hour.
C20_NoWindow ==
    ( /\ calendar # Null
      /\ calendar.result # Null
      /\ buildRestrictionWindows(calendar.items) = <<>> )
    => /\ Val(calendar.result).restriction = Null
       /\ Val(calendar.result).nextCheckAfterMs = MS_IN_HOUR

\* C21: when the request to the calendar feed fails (fetch rejects, or the
\* status is not OK), fetchCurrentRestriction returns no restriction (null) and
\* nextCheckAfterMs of 1 hour.
C21_FailOpen ==
    ( /\ calendar # Null
      /\ calendar.result # Null
      /\ calendar.response # "ok" )
    => /\ Val(calendar.result).restriction = Null
       /\ Val(calendar.result).nextCheckAfterMs = MS_IN_HOUR

\* the starts of the windows that begin after instant t, the least of a set of
\* instants, and whether t is inside one of the windows
UpcomingStarts(ws, t) == { ws[j].start : j \in { i \in 1 .. Len(ws) : ws[i].start > t } }
Least(S) == CHOOSE x \in S : \A y \in S : x <= y
InsideSome(ws, t) == \E j \in 1 .. Len(ws) : ws[j].start <= t /\ t < ws[j].end

\* C22: fetchCurrentRestriction called with a reference date outside every
\* window of the feed returns nextCheckAfterMs of 1 hour if no window starts
\* after the reference date, of 5 minutes if the soonest start is at most 15
\* minutes away, and otherwise the lesser of the time to that start and 2 hours.
C22_RecheckDelay ==
    (calendar # Null /\ calendar.result # Null)
    => LET ws == buildRestrictionWindows(calendar.items)
           t == calendar.referenceDate
           up == UpcomingStarts(ws, t)
           delta == Least(up) - t
       IN  ~InsideSome(ws, t)
           => Val(calendar.result).nextCheckAfterMs
                = IF up = {} THEN MS_IN_HOUR
                  ELSE IF delta <= 15 * MS_IN_MINUTE THEN 5 * MS_IN_MINUTE
                  ELSE IF delta < 2 * MS_IN_HOUR THEN delta
                  ELSE 2 * MS_IN_HOUR

\* the local calendar day of an instant, and of the date of a feed item
DayOf(t) == (t + LocalOffset) \div MS_IN_DAY
DayOfDate(date) == IF date[1] = "D" THEN date[2] ELSE DayOf(date[2])

\* the feed holds one candle-lighting marker, at c, one havdalah marker, at h,
\* and nothing else
OnePair(items, c, h) ==
    /\ Len(items) = 2
    /\ \E i, j \in 1 .. 2 :
          /\ items[i] = [ category |-> "candles", date |-> <<"T", c>> ]
          /\ items[j] = [ category |-> "havdalah", date |-> <<"T", h>> ]

C24_PersistedIdFirst ==
    \A s \in Slots :
        ( /\ ops[s].kind = "cancel"
          /\ ops[s].preStored # Null
          /\ ops[s].nid # Null )
        => ops[s].nid = ops[s].preStored

\* ---------------------------------------------------------------------------
\* what has become of the notification named by the persisted identifier
StoredIs(how) == storedId # Null /\ <<Val(storedId), how>> \in fate
StoredPending == storedId # Null /\ Val(storedId) \in IdsOf(pending)
CacheAgrees == scheduledNotificationId = Null \/ scheduledNotificationId = storedId

\* C25 (as stated)  Whenever no scheduler operation is in flight, the cached
\* identifier is null or equal to the persisted one, and the persisted
\* identifier is absent or names a notification that is pending in the OS or
\* has been delivered.
C25_PendingOrDelivered ==
    AllIdle => /\ CacheAgrees
               /\ storedId = Null \/ StoredPending \/ StoredIs("delivered")

\* C25 (amended)  Whenever no scheduler operation is in flight, the cached
\* identifier is null or equal to the persisted one, and the persisted
\* identifier is absent or names a notification that is pending in the OS, has
\* been delivered, or was dropped by the OS undelivered (reboot, force-stop);
\* it never names a notification the scheduler itself cancelled.
C25_NeverCancelled ==
    AllIdle => /\ CacheAgrees
               /\ \/ storedId = Null
                  \/ StoredPending
                  \/ StoredIs("delivered")
                  \/ StoredIs("discarded")
               /\ ~StoredIs("cancelled")

\* a second notification was armed after the scheduler cancelled the first, its
\* identifier is persisted and cached, and the OS has dropped it
C25_Witness ==
    /\ AllIdle
    /\ last.kind = "discard"
    /\ storedId = Some(2)
    /\ scheduledNotificationId = storedId
    /\ StoredIs("discarded")
    /\ pending = {}

\* ---------------------------------------------------------------------------
\* the re-arm operations a step starts
Rearmed == { s \in Slots : ops[s].pc = "idle" /\ ops'[s].kind = "received" }

\* C26  The notification-received listener is added at most once per process
\* however often scheduleDailyQuoteNotification is called, so one delivered
\* notification starts at most one re-arm operation; registerTaskAsync is
\* called only while the background task is not registered; and a completed
\* cancelDailyQuoteNotification leaves the task unregistered.
C26_OneListenerOneTask ==
    /\ [](listeners <= 1)
    /\ [][ Cardinality(Rearmed) <= 1 ]_vars
    /\ [](\A s \in Slots : ops[s].pc = "reg_call" => ~taskRegistered)
    /\ [][ taskRegistered' /\ ~taskRegistered
            => \E s \in Slots : ops[s].pc = "reg_call" ]_vars
    /\ [](JustDone("cancel") => ~taskRegistered)

\* scheduleDailyQuoteNotification has armed a second notification in a process
\* that had already delivered one to its listener and re-armed; the task was
\* registered once; the delivery of the latest notification has started one
\* re-arm operation
C26_Witness ==
    /\ listeners = 1
    /\ taskRegistered
    /\ nextId = 3
    /\ Cardinality({ s \in Slots : ops[s].kind = "received" }) = 1
    /\ \E s \in Slots : /\ ops[s].kind = "received"
                         /\ ops[s].delivered # Null
                         /\ Val(ops[s].delivered).id = 2

\* ---------------------------------------------------------------------------
\* the candle markers (counted with repetition) for which h is the first
\* havdalah marker strictly after them
CandlesEndedBy(items, h) ==
    LET H == HavdalahInstants(items)
        before == { t \in Stamps : t < h /\ ~\E g \in H : t < g /\ g < h }
        RECURSIVE count(_)
        count(T) == IF T = {} THEN 0
                    ELSE LET t == CHOOSE x \in T : TRUE
                         IN  CandlesAt(items, t) + count(T \ {t})
    IN  count(before)

\* C27 (as stated)  The windows returned by buildRestrictionWindows are pairwise
\* non-overlapping and each havdalah marker ends at most one window, also when
\* two candle markers come before the next havdalah marker.
C27_NonOverlapping ==
    (calendar # Null /\ calendar.windows # Null)
    => LET ws == Val(calendar.windows)
           H == HavdalahInstants(calendar.items)
       IN  /\ \A i, j \in 1 .. Len(ws) : i < j => ws[i].end <= ws[j].start
           /\ \A h \in H : Cardinality({ j \in 1 .. Len(ws) : ws[j].end = h }) <= 1

\* C27 (amended)  Two windows returned by buildRestrictionWindows do not overlap
\* when a havdalah marker lies after the earlier one's candle marker and not
\* after the later one's; when none does (two candle markers before the next
\* havdalah marker) both windows end at that havdalah marker and the later
\* lies inside the earlier.  A havdalah marker ends one window for each candle
\* marker it is the first havdalah marker after.
C27_SharedHavdalah ==
    (calendar # Null /\ calendar.windows # Null)
    => LET ws == Val(calendar.windows)
           items == calendar.items
           H == HavdalahInstants(items)
       IN  /\ \A i, j \in 1 .. Len(ws) :
                 i < j =>
                   IF \E h \in H : ws[i].start < h /\ h <= ws[j].start
                   THEN ws[i].end <= ws[j].start
                   ELSE /\ ws[i].end = ws[j].end
                        /\ ws[i].start <= ws[j].start
                        /\ ws[j].start < ws[i].end
           /\ \A h \in H : Cardinality({ j \in 1 .. Len(ws) : ws[j].end = h })
                               = CandlesEndedBy(items, h)

\* candle markers on two consecutive evenings and one havdalah marker after
\* both: two windows, both ending at the havdalah marker
C27_Witness ==
    /\ calendar # Null
    /\ calendar.windows # Null
    /\ Len(calendar.items) = 3
    /\ \E D1, D2, E \in Stamps :
          /\ D1 < D2 /\ D2 < E
          /\ CandlesAt(calendar.items, D1) = 1
          /\ CandlesAt(calendar.items, D2) = 1
          /\ HavdalahInstants(calendar.items) = { E }
          /\ Val(calendar.windows) = << [ reason |-> "shabbat", start |-> D1, end |-> E ],
                                        [ reason |-> "shabbat", start |-> D2, end |-> E ] >>

C29_OneTimer ==
    /\ [](/\ Cardinality(provider.timers) <= 1
          /\ \A tm \in provider.timers : tm.delay >= 60 * 1000)
    /\ [][ provider.phase = "unmounted"
            => /\ provider'.timers \subseteq provider.timers
               /\ provider'.timeoutRef = provider.timeoutRef
               /\ provider'.loading = provider.loading
               /\ provider'.restriction = provider.restriction ]_vars
    /\ [](provider.phase = "unmounted" => provider.timers = {})
    /\ [][ (provider.phase = "mounted" /\ Running(provider') < Running(provider))
            => /\ provider'.timers # {}
               /\ \A tm \in provider'.timers : provider'.timeoutRef = Some(tm.id)
               /\ \A tm \in provider'.timers : tm \notin provider.timers ]_vars
    /\ [](provider.phase = "mounted"
          => <>(Running(provider) > 0 \/ provider.phase = "unmounted"))

\* a timer-driven and a manual refresh are both in flight while the timeout
\* armed by another manual refresh that has completed is pending
C29_Witness ==
    /\ provider # Null
    /\ provider.phase = "mounted"
    /\ provider.inflight["timer"] = 1
    /\ provider.inflight["manual"] = 1
    /\ Cardinality(provider.timers) = 1
    /\ \A tm \in provider.timers : provider.timeoutRef = Some(tm.id) /\ tm.delay = 3600000
    /\ provider.restriction # Null
    /\ ~provider.loading

\* ---------------------------------------------------------------------------
\* the step calls the scheduler's entry point: an operation of that kind starts
Invoked(kind) == \E s \in Slots : ops[s].pc = "idle" /\ ops'[s].kind = kind
\* the step is a call of reset()
ResetCalled == ~prefs.effectPending /\ prefs'.effectPending /\ prefs'.did = "reset"
\* the step makes wantsQuotes false
TurnsFalse == prefs.wantsQuotes # Some(FALSE) /\ prefs'.wantsQuotes = Some(FALSE)

\* C30 (as stated)  The preference layer calls scheduleDailyQuoteNotification
\* only in states where the preferences are loaded, wantsQuotes is true and a
\* notification time is set, never while wantsQuotes is false or undefined;
\* every change of wantsQuotes to false and every reset() calls
\* cancelDailyQuoteNotification.
C30_EveryTurnOffCancels ==
    /\ [][ Invoked("schedule")
            => /\ prefs.loaded
               /\ prefs.wantsQuotes = Some(TRUE)
               /\ prefs.notificationTime # Null ]_vars
    /\ [][ TurnsFalse => Invoked("cancel") ]_vars
    /\ [][ ResetCalled => Invoked("cancel") ]_vars

\* C30 (amended)  As stated, except that the change of wantsQuotes to false
\* counts when the preferences are loaded, that is when setWantsQuotes(false)
\* makes it; loading a stored "false" at start-up calls nothing.
C30_LoadedTurnOffCancels ==
    /\ [][ Invoked("schedule")
            => /\ prefs.loaded
               /\ prefs.wantsQuotes = Some(TRUE)
               /\ prefs.notificationTime # Null ]_vars
    /\ [][ (prefs.loaded /\ TurnsFalse) => Invoked("cancel") ]_vars
    /\ [][ (~prefs.loaded /\ TurnsFalse)
            => /\ prefs'.did = "load"
               /\ ~Invoked("cancel")
               /\ storedWants = Some("false") ]_vars
    /\ [][ ResetCalled => Invoked("cancel") ]_vars

\* the user had enabled quotes with a time and an author, the effect called
\* scheduleDailyQuoteNotification and a notification was armed; the user now
\* has turned quotes off and cancelDailyQuoteNotification is at its OS call
C30_Witness ==
    /\ prefs # Null
    /\ prefs.loaded
    /\ prefs.did = "setWantsQuotes"
    /\ prefs.wantsQuotes = Some(FALSE)
    /\ storedWants = Some("false")
    /\ prefs.notificationTime # Null
    /\ pending # {}
    /\ \E s \in Slots : ops[s].kind = "cancel" /\ ops[s].pc = "os_cancel"
    /\ \A s \in Slots : ops[s].kind # "schedule"

====
